---- MODULE Spec2Model ----
(***************************************************************************)
(* A model of the discord trading bot: the on_message handler of bot.py,   *)
(* TradeExecutor (trade_executor.py) and the ExchangeConnector calls it    *)
(* awaits (exchange_connector.py).                                         *)
(*                                                                         *)
(* Every message is handled by its own asyncio task.  A task is suspended  *)
(* at each await, so one action of the model is the code that runs between *)
(* two awaits of one task; tasks interleave at those points only.          *)
(*                                                                         *)
(* Python floats are modelled as exact non-negative rationals <<n, d>> in  *)
(* lowest terms: float rounding is not modelled.                           *)
(***************************************************************************)
EXTENDS Integers, Sequences, FiniteSets, TLC

\* ------------------------------------------------------------ numbers

RECURSIVE Gcd(_, _)
Gcd(a, b) == IF b = 0 THEN a ELSE Gcd(b, a % b)

\* The number n/d (n >= 0, d > 0) in lowest terms.
R(n, d) == LET g == Gcd(n, d) IN IF n = 0 THEN <<0, 1>> ELSE <<n \div g, d \div g>>

Num(n) == R(n, 1)
Add(a, b) == R(a[1] * b[2] + b[1] * a[2], a[2] * b[2])
Mul(a, b) == R(a[1] * b[1], a[2] * b[2])
\* a / b for b # 0; Python raises ZeroDivisionError for b = 0, which the
\* callers model before dividing.
Div(a, b) == R(a[1] * b[2], a[2] * b[1])
Lt(a, b) == a[1] * b[2] < b[1] * a[2]
Ge(a, b) == ~Lt(a, b)
IsZero(a) == a[1] = 0
Min(a, b) == IF Lt(b, a) THEN b ELSE a

\* Python's None, and a value that is present.
None == <<>>
Some(x) == <<x>>

\* An empty dict.
EmptyDict == [k \in {} |-> None]

\* ------------------------------------------------------------ configuration

MAX_POSITION_SIZE == 100
POSITION_SIZE_PERCENTAGE == 10
\* "if balance < 10" in execute_signal
MinBalance == 10
\* position_size * 0.6 and position_size * 0.4
\* An even split of the position.
FirstBuyShareHalf == R(1, 2)
FirstBuyShare == R(3, 5)
SecondBuyShare == R(2, 5)
\* get_min_order_size's default when the market is unknown or the query fails
DefaultMinOrderSize == R(1, 1000)
DEFAULT_QUOTE_ASSET == "USDT"

\* ------------------------------------------------------------ bounds and inputs

\* The longest list of target percentages a message carries.
MaxTargets == 2

Symbols == {"LSK", "BTC"}
TargetPercents == {5, 10}
\* The (min, max) of "first buying"; 0-0 is a range the parser accepts.
FirstBuyRanges == {<<Num(0), Num(0)>>, <<Num(1), Num(3)>>}
SecondBuyPrices == {Num(0), R(1, 2), Num(2)}
StopLossPrices == {Num(1)}
CmpPrices == {Num(2)}
\* The account's free quote balance, and the market's minimum order amount.
Balances == {Num(5), Num(500), Num(1000), Num(2000)}
MinOrderSizes == {R(1, 1000), Num(25), Num(50), Num(60)}

RECURSIVE SeqsUpTo(_, _)
SeqsUpTo(S, n) ==
    IF n = 0 THEN {<<>>}
    ELSE LET shorter == SeqsUpTo(S, n - 1)
         IN shorter \cup {Append(s, x) : s \in {t \in shorter : Len(t) = n - 1}, x \in S}

\* What the regular expressions of parse_message captured from a message.
Captures ==
    [symbol : Symbols, first_buy_range : FirstBuyRanges, second_buy : SecondBuyPrices,
     cmp : CmpPrices, targets : SeqsUpTo(TargetPercents, MaxTargets),
     stop_loss : StopLossPrices]

\* The messages of the runs that interleave two executions: prices that let
\* every step of an execution happen.
RaceCaptures ==
    [symbol : Symbols, first_buy_range : {<<Num(1), Num(3)>>}, second_buy : {Num(2)},
     cmp : CmpPrices, targets : {<<5>>}, stop_loss : StopLossPrices]

\* The messages of the runs that follow one execution through its faults:
\* one symbol, every price a division can meet, no target or two.
FaultCaptures ==
    [symbol : {"LSK"}, first_buy_range : FirstBuyRanges, second_buy : SecondBuyPrices,
     cmp : CmpPrices, targets : {<<>>, <<5, 10>>}, stop_loss : StopLossPrices]

VARIABLES
    messages,             \* message id -> what was captured from its text
    balance,              \* the exchange: the account's free quote balance
    min_size,             \* the exchange: the market's minimum order amount
    ENABLE_STOP_LOSS,     \* config.py
    ENABLE_TAKE_PROFIT,   \* config.py
    active_trades,        \* TradeExecutor.active_trades: symbol -> record
    exec,                 \* message id -> the locals of its on_message task
    snapshot,             \* what a caller of get_active_trades holds, or None
    text,                 \* the message content handed to parse_message
    parsed,               \* <<>>, or <<what parse_message returned>>
    gated                 \* <<>>, or <<what on_message got for the text>>

vars == <<messages, balance, min_size, ENABLE_STOP_LOSS, ENABLE_TAKE_PROFIT,
          active_trades, exec, snapshot, text, parsed, gated>>

\* What the executions read and never write.
world == <<messages, balance, min_size, ENABLE_STOP_LOSS, ENABLE_TAKE_PROFIT>>

\* What no step of the executor changes.
env == <<world, snapshot, text, parsed, gated>>

\* ------------------------------------------------------------ signal_parser.py

\* A message content as the regular expressions of parse_message see it: the
\* sequence of the pieces one of them matches.  kind names the expression:
\*   "symbol"   \$([A-Z0-9]+), name the captured group
\*   "first"    first\s+buying[:\s]+([\d.]+)[\s-]+([\d.]+), numbers the two groups
\*   "second"   second\s+buying[:\s]+([\d.]+)
\*   "cmp"      cmp[:\s]+([\d.]+)
\*   "sl"       sl[:\s]+([\d.]+)
\*   "targets"  targets?\s*[:\n]+, the heading of the target section
\*   "percent"  (\d+)%, percent the captured digits
\*   "word"     text none of them matches whole; name is the word
Token(kind, name, numbers, percent) ==
    [kind |-> kind, name |-> name, numbers |-> numbers, percent |-> percent]

\* What [\d.]+ captured: a number float() accepts, or text such as "1.2.3"
\* that float() refuses with ValueError.
Numeral(value) == [value |-> value, wellformed |-> TRUE]
Malformed == [value |-> Num(0), wellformed |-> FALSE]

\* The message contents of the runs of parse_message: each piece is absent,
\* present, or present with a number float() refuses.
SymbolTexts == {"lsk", "BTC"}
SymbolPieces == {<<>>} \cup {<<Token("symbol", n, <<>>, 0)>> : n \in SymbolTexts}
FirstPieces ==
    {<<>>, <<Token("first", "", <<Numeral(Num(1)), Numeral(Num(3))>>, 0)>>,
     <<Token("first", "", <<Numeral(Num(1)), Malformed>>, 0)>>}
PricePieces(kind) ==
    {<<>>, <<Token(kind, "", <<Numeral(Num(2))>>, 0)>>, <<Token(kind, "", <<Malformed>>, 0)>>}
WordPieces == {<<>>} \cup {<<Token("word", w, <<>>, 0)>> : w \in {"buying", "cmp"}}
HeadingPieces == {<<>>, <<Token("targets", "", <<>>, 0)>>}
PercentPieces ==
    {[i \in DOMAIN p |-> Token("percent", "", <<>>, p[i])] :
         p \in SeqsUpTo(TargetPercents, MaxTargets)}
Texts ==
    {word \o symbol \o first \o second \o cmp \o heading \o percents \o sl :
         word \in WordPieces, symbol \in SymbolPieces, first \in FirstPieces, second \in PricePieces("second"),
         cmp \in PricePieces("cmp"), heading \in HeadingPieces,
         percents \in PercentPieces, sl \in PricePieces("sl")}

\* re.search: the place of the first match of the expression, 0 when none.
Search(content, kind) ==
    LET found == {i \in DOMAIN content : content[i].kind = kind}
    IN IF found = {} THEN 0 ELSE CHOOSE i \in found : \A j \in found : i <= j

\* re.findall(r'(\d+)%', ...): the captured digits of every match, in order.
RECURSIVE Findall(_)
Findall(content) ==
    IF content = <<>> THEN <<>>
    ELSE (IF Head(content).kind = "percent" THEN <<Head(content).percent>> ELSE <<>>)
             \o Findall(Tail(content))

\* The group ([\d%\s,]+) of the target section: the percentages that follow
\* the heading with nothing else between.
RECURSIVE PercentRun(_)
PercentRun(content) ==
    IF content = <<>> \/ Head(content).kind # "percent" THEN <<>>
    ELSE <<Head(content)>> \o PercentRun(Tail(content))

TargetSection(content) ==
    LET heading == Search(content, "targets")
    IN IF heading = 0 THEN <<>>
       ELSE Findall(PercentRun(SubSeq(content, heading + 1, Len(content))))

\* str.upper() on the symbols of SymbolTexts
Upper(name) == CASE name = "lsk" -> "LSK" [] name = "btc" -> "BTC" [] OTHER -> name

\* sorted(): insertion of each element into an ascending list.
RECURSIVE Insert(_, _)
Insert(x, s) ==
    IF s = <<>> THEN <<x>>
    ELSE IF x <= Head(s) THEN <<x>> \o s
    ELSE <<Head(s)>> \o Insert(x, Tail(s))

\* A sort that keeps one of each value.
RECURSIVE SortedDistinct(_)
SortedDistinct(s) ==
    IF s = <<>> THEN <<>>
    ELSE LET rest == SortedDistinct(Tail(s))
         IN IF \E i \in DOMAIN rest : rest[i] = Head(s) THEN rest
            ELSE Insert(Head(s), rest)

RECURSIVE sorted(_)
sorted(s) == IF s = <<>> THEN <<>> ELSE Insert(Head(s), sorted(Tail(s)))

\* The TradingSignal parse_message builds from what it captured.
TradingSignal(c) ==
    [symbol |-> c.symbol, first_buy_range |-> c.first_buy_range,
     second_buy |-> c.second_buy, cmp |-> c.cmp,
     targets |-> sorted(c.targets), stop_loss |-> c.stop_loss]

\* A pre-filter whose symbol expression lacks re.IGNORECASE.
IsSignalMessageCaseSensitive(content) ==
    /\ \E i \in DOMAIN content :
           content[i].kind = "symbol" /\ content[i].name = Upper(content[i].name)
    /\ \E i \in DOMAIN content :
           \/ content[i].kind \in {"first", "second"}
           \/ content[i].kind = "word" /\ content[i].name = "buying"
    /\ \E i \in DOMAIN content : content[i].kind \in {"cmp", "percent", "sl"}

\* is_signal_message: has_symbol and has_buying and (has_cmp or has_targets
\* or has_sl).  "buying" is in what the first and second buying expressions
\* match, "cmp" in what the cmp expression matches.
IsSignalMessage(content) ==
    LET has_symbol == \E i \in DOMAIN content : content[i].kind = "symbol"
        has_buying == \E i \in DOMAIN content :
                          \/ content[i].kind \in {"first", "second"}
                          \/ content[i].kind = "word" /\ content[i].name = "buying"
        has_cmp == \E i \in DOMAIN content :
                       \/ content[i].kind = "cmp"
                       \/ content[i].kind = "word" /\ content[i].name = "cmp"
        has_targets == \E i \in DOMAIN content : content[i].kind = "percent"
        has_sl == \E i \in DOMAIN content : content[i].kind = "sl"
    IN has_symbol /\ has_buying /\ (has_cmp \/ has_targets \/ has_sl)

\* parse_message: None, or Some(signal).
ParseMessage(content) ==
    LET symbol_match == Search(content, "symbol")
        first_buy_match == Search(content, "first")
        second_buy_match == Search(content, "second")
        cmp_match == Search(content, "cmp")
        sl_match == Search(content, "sl")
        found == Findall(content)
        targets == IF found = <<>> THEN TargetSection(content) ELSE found
    IN IF symbol_match = 0 THEN None
       ELSE IF first_buy_match = 0 THEN None
       ELSE IF \E n \in {1, 2} : ~content[first_buy_match].numbers[n].wellformed
            THEN None   \* ValueError, "except Exception: return None"
       ELSE IF second_buy_match = 0 THEN None
       ELSE IF ~content[second_buy_match].numbers[1].wellformed THEN None
       ELSE IF cmp_match = 0 THEN None
       ELSE IF ~content[cmp_match].numbers[1].wellformed THEN None
       ELSE IF sl_match = 0 THEN None
       ELSE IF ~content[sl_match].numbers[1].wellformed THEN None
       ELSE Some(TradingSignal(
                [symbol |-> Upper(content[symbol_match].name),
                 first_buy_range |-> <<content[first_buy_match].numbers[1].value,
                                       content[first_buy_match].numbers[2].value>>,
                 second_buy |-> content[second_buy_match].numbers[1].value,
                 cmp |-> content[cmp_match].numbers[1].value,
                 targets |-> targets,
                 stop_loss |-> content[sl_match].numbers[1].value]))

\* ------------------------------------------------------------ exchange_connector.py

\* f"{base_asset}/{quote_asset}"
get_symbol(base_asset, quote_asset) == base_asset \o "/" \o quote_asset

\* One entry of the record of calls a task made on the exchange; ret is
\* "pending" while the call is awaited, then "value" or "none".
Call(op, step, side, amount, price) ==
    [op |-> op, step |-> step, side |-> side, amount |-> amount, price |-> price,
     ret |-> "pending"]

\* The order the exchange returns for the k-th call of task m.
Order(m, k, c) ==
    [id |-> <<m, k>>, step |-> c.step, side |-> c.side, amount |-> c.amount,
     price |-> c.price]

\* ------------------------------------------------------------ trade_executor.py

\* The locals of a task that has not started.
Idle ==
    [pc |-> "idle", signal |-> None, symbol |-> None, balance |-> None,
     position_size |-> None, first_buy_size |-> None, second_buy_size |-> None,
     first_buy_price |-> None, first_buy_amount |-> None, min_order_size |-> None,
     first_order |-> None, total_amount |-> None, total_cost |-> None,
     second_buy_amount |-> None, second_order |-> None, avg_entry_price |-> None,
     stop_loss_order |-> None, take_profit_orders |-> <<>>, amount_per_target |-> None,
     i |-> 0, calls |-> <<>>, result |-> None, outcome |-> "running"]

\* The task issues a call on the exchange and is suspended at pc.
Await(e, pc, call) == [e EXCEPT !.pc = pc, !.calls = Append(e.calls, call)]

\* The awaited call returned: ret is "value" or "none".
Returned(e, ret) == [e EXCEPT !.calls[Len(e.calls)].ret = ret]

\* execute_signal returns value; outcome names the return statement taken.
Return(e, value, outcome) == [e EXCEPT !.pc = "done", !.result = value, !.outcome = outcome]

\* A handler that lets the exception leave execute_signal.
ExceptReraises(e) == [e EXCEPT !.pc = "raised"]

\* "except Exception as e: ... return False"
Except(e) == Return(e, FALSE, "error")

\* The order of the call the task is awaiting.
LastOrder(m, e) == Order(m, Len(e.calls), e.calls[Len(e.calls)])

InitCommon ==
    /\ balance \in Balances
    /\ min_size \in MinOrderSizes
    /\ ENABLE_STOP_LOSS \in BOOLEAN
    /\ ENABLE_TAKE_PROFIT \in BOOLEAN
    /\ active_trades = EmptyDict
    /\ exec = [m \in DOMAIN messages |-> Idle]
    /\ snapshot = None
    /\ text = <<>>
    /\ parsed = <<>>
    /\ gated = <<>>

\* One message, any captured values.
Init ==
    /\ messages \in [{1} -> Captures]
    /\ InitCommon

\* d[k] = v and del d[k]
DictSet(d, k, v) == [x \in DOMAIN d \cup {k} |-> IF x = k THEN v ELSE d[x]]
DictDel(d, k) == [x \in DOMAIN d \ {k} |-> d[x]]

\* The dict execute_signal stores for the trade.
TradeRecord(e) ==
    [symbol |-> e.symbol, base_symbol |-> e.signal.symbol,
     first_order |-> e.first_order, second_order |-> e.second_order,
     stop_loss_order |-> e.stop_loss_order,
     take_profit_orders |-> e.take_profit_orders,
     total_amount |-> e.total_amount, avg_entry_price |-> e.avg_entry_price,
     signal |-> e.signal]

\* "Store active trade": the task reached the assignment to active_trades.
Commit(e) == [e EXCEPT !.pc = "commit"]

\* target_price = avg_entry_price * (1 + target_percent / 100)
TargetPrice(e, target_percent) == Mul(e.avg_entry_price, R(100 + target_percent, 100))

\* A take-profit sell for the whole position at every target.
TakeProfitCallWholeAmount(e, k) ==
    Call("place_limit_order", "take_profit", "sell", e.total_amount,
         TargetPrice(e, e.signal.targets[k]))

\* A loop that walks signal.targets from its end.
TakeProfitCallReversed(e, k) ==
    Call("place_limit_order", "take_profit", "sell", e.amount_per_target,
         TargetPrice(e, e.signal.targets[Len(e.signal.targets) + 1 - k]))

TakeProfitCall(e, k) ==
    Call("place_limit_order", "take_profit", "sell", e.amount_per_target,
         TargetPrice(e, e.signal.targets[k]))

\* "Set up take profit targets", up to the first placement.
AfterStopLoss(e) ==
    IF ENABLE_TAKE_PROFIT /\ e.signal.targets # <<>>
    THEN LET e1 == [e EXCEPT !.amount_per_target =
                                  Div(e.total_amount, Num(Len(e.signal.targets))),
                             !.i = 1]
         IN Await(e1, "take_profit", TakeProfitCall(e1, 1))
    ELSE Commit(e)

\* A loop that ends at the first take-profit placement that fails.
AfterTakeProfitBreaks(m, e, ok) ==
    LET e1 == IF ok
              THEN [Returned(e, "value") EXCEPT
                        !.take_profit_orders = Append(e.take_profit_orders, LastOrder(m, e))]
              ELSE Returned(e, "none")
    IN IF ok /\ e.i < Len(e.signal.targets)
       THEN LET e2 == [e1 EXCEPT !.i = e.i + 1]
            IN Await(e2, "take_profit", TakeProfitCall(e2, e2.i))
       ELSE Commit(e1)

\* A take-profit placement returned: the rest of the loop over signal.targets.
AfterTakeProfit(m, e, ok) ==
    LET e1 == IF ok
              THEN [Returned(e, "value") EXCEPT
                        !.take_profit_orders = Append(e.take_profit_orders, LastOrder(m, e))]
              ELSE Returned(e, "none")
    IN IF e.i < Len(e.signal.targets)
       THEN LET e2 == [e1 EXCEPT !.i = e.i + 1]
            IN Await(e2, "take_profit", TakeProfitCall(e2, e2.i))
       ELSE Commit(e1)

\* A stop-loss whose failure ends the execution.
AfterStopFallbackFatal(m, e, ok) ==
    IF ok
    THEN AfterStopLoss([Returned(e, "value") EXCEPT !.stop_loss_order = Some(LastOrder(m, e))])
    ELSE Return(Returned(e, "none"), FALSE, "error")

\* place_stop_loss_order's fallback limit sell returned.
AfterStopFallback(m, e, ok) ==
    IF ok
    THEN AfterStopLoss([Returned(e, "value") EXCEPT !.stop_loss_order = Some(LastOrder(m, e))])
    ELSE AfterStopLoss([Returned(e, "none") EXCEPT !.stop_loss_order = None])

\* A fallback limit sell placed whether or not the stop order was placed.
AfterStopOrderAlwaysFallback(m, e, ok) ==
    Await([Returned(e, IF ok THEN "value" ELSE "none") EXCEPT
               !.stop_loss_order = IF ok THEN Some(LastOrder(m, e)) ELSE None],
          "stop_fallback",
          Call("place_limit_order", "stop_fallback", "sell", e.total_amount,
               e.signal.stop_loss))

\* place_stop_loss_order's stop order returned, or raised and the fallback is placed.
AfterStopOrder(m, e, ok) ==
    IF ok
    THEN AfterStopLoss([Returned(e, "value") EXCEPT !.stop_loss_order = Some(LastOrder(m, e))])
    ELSE Await(Returned(e, "none"), "stop_fallback",
               Call("place_limit_order", "stop_fallback", "sell", e.total_amount,
                    e.signal.stop_loss))

\* "Calculate average entry price" and "Set up stop loss".
AfterBuys(e) ==
    LET e1 == [e EXCEPT !.avg_entry_price =
                            IF ~IsZero(e.total_amount)
                            THEN Div(e.total_cost, e.total_amount)
                            ELSE e.first_buy_price,
                        !.stop_loss_order = None]
    IN IF ENABLE_STOP_LOSS
       THEN Await(e1, "stop_loss",
                  Call("create_order", "stop_loss", "sell", e1.total_amount,
                       e1.signal.stop_loss))
       ELSE AfterStopLoss(e1)

\* A second buy whose amount is counted whether or not it returned an order.
AfterSecondBuyCountsFailure(m, e, ok) ==
    AfterBuys([Returned(e, IF ok THEN "value" ELSE "none") EXCEPT
                   !.second_order = IF ok THEN Some(LastOrder(m, e)) ELSE None,
                   !.total_amount = Add(e.total_amount, e.second_buy_amount),
                   !.total_cost = Add(e.total_cost, e.second_buy_size)])

\* The second buy returned: "if second_order:".
AfterSecondBuy(m, e, ok) ==
    IF ok
    THEN AfterBuys([Returned(e, "value") EXCEPT
                        !.second_order = Some(LastOrder(m, e)),
                        !.total_amount = Add(e.total_amount, e.second_buy_amount),
                        !.total_cost = Add(e.total_cost, e.second_buy_size)])
    ELSE AfterBuys([Returned(e, "none") EXCEPT !.second_order = None])

\* A second buy that is placed whatever its amount.
SecondBuyAlwaysPlaced(second_buy_amount, min_order_size) == TRUE

\* "if second_buy_amount >= min_order_size"
SecondBuyPlaced(second_buy_amount, min_order_size) == Ge(second_buy_amount, min_order_size)

\* A check that lets a failed first buy through.
FirstBuyNeverFails(first_order) == FALSE

\* "if not first_order"
FirstBuyFailed(first_order) == first_order = None

\* The first buy returned first_order: up to the second buy's placement.
AfterFirstBuy(e, first_order) ==
    LET e1 == [Returned(e, IF first_order = None THEN "none" ELSE "value") EXCEPT
                   !.first_order = first_order]
    IN IF FirstBuyFailed(first_order)
       THEN Return(e1, FALSE, "first_buy_failed")
       ELSE LET e2 == [e1 EXCEPT !.total_amount = e.first_buy_amount,
                                 !.total_cost = e.first_buy_size]
            IN IF IsZero(e.signal.second_buy)
               THEN \* ZeroDivisionError, caught by "except Exception"
                    Except(e2)
               ELSE LET e3 == [e2 EXCEPT !.second_buy_amount =
                                             Div(e.second_buy_size, e.signal.second_buy)]
                    IN IF SecondBuyPlaced(e3.second_buy_amount, e3.min_order_size)
                       THEN Await(e3, "second_buy",
                                  Call("place_limit_order", "second_buy", "buy",
                                       e3.second_buy_amount, e3.signal.second_buy))
                       ELSE AfterBuys(e3)

\* A raise to the minimum that leaves first_buy_size as it was computed.
AfterMinOrderSizeKeepsCost(e, min_order_size) ==
    LET below == Lt(e.first_buy_amount, min_order_size)
        e1 == [Returned(e, "value") EXCEPT
                   !.min_order_size = min_order_size,
                   !.first_buy_amount = IF below THEN min_order_size
                                        ELSE e.first_buy_amount]
    IN Await(e1, "first_buy",
             Call("place_limit_order", "first_buy", "buy", e1.first_buy_amount,
                  e1.first_buy_price))

\* A first buy placed for the computed amount whatever the minimum is.
AfterMinOrderSizeNoRaise(e, min_order_size) ==
    LET e1 == [Returned(e, "value") EXCEPT !.min_order_size = min_order_size]
    IN Await(e1, "first_buy",
             Call("place_limit_order", "first_buy", "buy", e1.first_buy_amount,
                  e1.first_buy_price))

\* get_min_order_size returned: "Check minimum order size", "Place first buy order".
AfterMinOrderSize(e, min_order_size) ==
    LET below == Lt(e.first_buy_amount, min_order_size)
        amount == IF below THEN min_order_size ELSE e.first_buy_amount
        e1 == [Returned(e, "value") EXCEPT
                   !.min_order_size = min_order_size,
                   !.first_buy_amount = amount,
                   !.first_buy_size = IF below THEN Mul(amount, e.first_buy_price)
                                      ELSE e.first_buy_size]
    IN Await(e1, "first_buy",
             Call("place_limit_order", "first_buy", "buy", e1.first_buy_amount,
                  e1.first_buy_price))

\* A position size that is the percentage of the balance alone.
PositionSizeUncapped(b) == Mul(b, R(POSITION_SIZE_PERCENTAGE, 100))

\* min(balance * (POSITION_SIZE_PERCENTAGE / 100), MAX_POSITION_SIZE)
PositionSize(b) == Min(Mul(b, R(POSITION_SIZE_PERCENTAGE, 100)), Num(MAX_POSITION_SIZE))

\* An executor without the balance floor.
BalanceFloorSkipped(b) == FALSE

\* "if balance < 10"
BelowFloor(b) == Lt(b, Num(MinBalance))

\* get_balance returned b: the balance floor and "Calculate position size".
AfterBalance(e, b) ==
    LET e1 == [Returned(e, "value") EXCEPT !.balance = b]
    IN IF BelowFloor(b)
       THEN Return(e1, FALSE, "insufficient_balance")
       ELSE LET position_size == PositionSize(b)
                first_buy_price == Div(Add(e.signal.first_buy_range[1],
                                           e.signal.first_buy_range[2]), Num(2))
                e2 == [e1 EXCEPT !.position_size = position_size,
                                 !.first_buy_size = Mul(position_size, FirstBuyShare),
                                 !.second_buy_size = Mul(position_size, SecondBuyShare),
                                 !.first_buy_price = first_buy_price]
            IN IF IsZero(first_buy_price)
               THEN \* ZeroDivisionError, caught by "except Exception"
                    Except(e2)
               ELSE Await([e2 EXCEPT !.first_buy_amount =
                                         Div(e2.first_buy_size, first_buy_price)],
                          "get_min_order_size",
                          Call("load_markets", "get_min_order_size", "", None, None))

\* The key of active_trades the executor looks up and writes.
LedgerKey(e) == e.signal.symbol

\* A guard that also counts the executions in flight for the symbol.
DuplicateGuardReserving(e) ==
    \/ e.signal.symbol \in DOMAIN active_trades
    \/ \E m \in DOMAIN exec :
           /\ exec[m].pc \notin {"idle", "start", "done"}
           /\ exec[m].signal.symbol = e.signal.symbol

\* A guard that looks up the exchange-formatted pair.
DuplicateGuardPair(e) == e.symbol \in DOMAIN active_trades

\* "if signal.symbol in self.active_trades"
\* A guard that any stored trade closes.
DuplicateGuardAnyTrade(e) == DOMAIN active_trades # {}

DuplicateGuard(e) == e.signal.symbol \in DOMAIN active_trades

\* execute_signal up to its first await.
Start(e) ==
    LET e1 == [e EXCEPT !.symbol = get_symbol(e.signal.symbol, DEFAULT_QUOTE_ASSET)]
    IN IF DuplicateGuard(e1)
       THEN Return(e1, FALSE, "duplicate")
       ELSE Await(e1, "get_balance", Call("fetch_balance", "get_balance", "", None, None))

\* An executor that stores the record and returns False.
ResumeReturnsFalse(m, e) ==
    IF e.pc = "commit"
    THEN /\ exec' = [exec EXCEPT ![m] = Return(e, FALSE, "committed")]
         /\ active_trades' = DictSet(active_trades, LedgerKey(e), TradeRecord(e))
    ELSE /\ exec' = [exec EXCEPT ![m] = e]
         /\ UNCHANGED active_trades

\* An executor that stores the record as soon as the first buy returned an
\* order and again at every later step.
ResumeWritesEarly(m, e) ==
    /\ exec' = [exec EXCEPT ![m] = IF e.pc = "commit" THEN Return(e, TRUE, "committed")
                                   ELSE e]
    /\ active_trades' = IF e.first_order # None
                        THEN DictSet(active_trades, LedgerKey(e), TradeRecord(e))
                        ELSE active_trades

\* The task of message m goes on with locals e; a task that reached the
\* assignment to active_trades makes it and returns True.
Resume(m, e) ==
    IF e.pc = "commit"
    THEN /\ exec' = [exec EXCEPT ![m] = Return(e, TRUE, "committed")]
         /\ active_trades' = DictSet(active_trades, LedgerKey(e), TradeRecord(e))
    ELSE /\ exec' = [exec EXCEPT ![m] = e]
         /\ UNCHANGED active_trades

\* ------------------------------------------------------------ actions

\* bot.py on_message: the signal is parsed, the embed is sent (an await), and
\* execute_signal is about to be called.
on_message(m) ==
    /\ exec[m].pc = "idle"
    /\ exec' = [exec EXCEPT ![m] = [exec[m] EXCEPT !.pc = "start",
                                                  !.signal = TradingSignal(messages[m])]]
    /\ UNCHANGED <<active_trades, env>>

execute_signal(m) ==
    /\ exec[m].pc = "start"
    /\ Resume(m, Start(exec[m]))
    /\ UNCHANGED env

\* get_balance returns the free balance, or 0.0 when the query failed.
get_balance(m) ==
    /\ exec[m].pc = "get_balance"
    /\ \E b \in {balance, Num(0)} : Resume(m, AfterBalance(exec[m], b))
    /\ UNCHANGED env

\* get_min_order_size returns the market's minimum, or the default.
get_min_order_size(m) ==
    /\ exec[m].pc = "get_min_order_size"
    /\ \E ms \in {min_size, DefaultMinOrderSize} : Resume(m, AfterMinOrderSize(exec[m], ms))
    /\ UNCHANGED env

\* place_limit_order returns the order, or None when the exchange raised.
first_buy(m) ==
    /\ exec[m].pc = "first_buy"
    /\ \E first_order \in {None, Some(LastOrder(m, exec[m]))} :
           Resume(m, AfterFirstBuy(exec[m], first_order))
    /\ UNCHANGED env

second_buy(m) ==
    /\ exec[m].pc = "second_buy"
    /\ \E ok \in BOOLEAN : Resume(m, AfterSecondBuy(m, exec[m], ok))
    /\ UNCHANGED env

stop_loss(m) ==
    /\ exec[m].pc = "stop_loss"
    /\ \E ok \in BOOLEAN : Resume(m, AfterStopOrder(m, exec[m], ok))
    /\ UNCHANGED env

stop_fallback(m) ==
    /\ exec[m].pc = "stop_fallback"
    /\ \E ok \in BOOLEAN : Resume(m, AfterStopFallback(m, exec[m], ok))
    /\ UNCHANGED env

take_profit(m) ==
    /\ exec[m].pc = "take_profit"
    /\ \E ok \in BOOLEAN : Resume(m, AfterTakeProfit(m, exec[m], ok))
    /\ UNCHANGED env

\* A removal that empties the ledger.
RemoveTradeClears(trades, symbol) == EmptyDict

\* "if symbol in self.active_trades: del self.active_trades[symbol]"
RemoveTrade(trades, symbol) ==
    IF symbol \in DOMAIN trades THEN DictDel(trades, symbol) ELSE trades

remove_trade(symbol) ==
    /\ active_trades' = RemoveTrade(active_trades, symbol)
    /\ UNCHANGED <<exec, env>>

Next ==
    \/ \E m \in DOMAIN messages : on_message(m)
    \/ \E m \in DOMAIN messages : execute_signal(m)
    \/ \E m \in DOMAIN messages : get_balance(m)
    \/ \E m \in DOMAIN messages : get_min_order_size(m)
    \/ \E m \in DOMAIN messages : first_buy(m)
    \/ \E m \in DOMAIN messages : second_buy(m)
    \/ \E m \in DOMAIN messages : stop_loss(m)
    \/ \E m \in DOMAIN messages : stop_fallback(m)
    \/ \E m \in DOMAIN messages : take_profit(m)
    \/ \E symbol \in Symbols : remove_trade(symbol)

Spec == Init /\ [][Next]_vars

\* Two messages whose executions interleave.
InitRace ==
    /\ messages \in [{1, 2} -> RaceCaptures]
    /\ InitCommon

SpecRace == InitRace /\ [][Next]_vars

\* One message, prices that raise included.
InitFaults ==
    /\ messages \in [{1} -> FaultCaptures]
    /\ InitCommon

SpecFaults == InitFaults /\ [][Next]_vars

\* The dict object a record of active_trades is: execute_signal builds one
\* per execution, which the id of the execution's first order tells apart.
ObjectId(record) == record.first_order[1].id

\* dict.copy(): a new mapping that refers to the same record objects.
ShallowCopy(trades) == [symbol \in DOMAIN trades |-> ObjectId(trades[symbol])]

\* What get_active_trades and check_trade_status return.
GetActiveTrades == ShallowCopy(active_trades)
CheckTradeStatus(symbol) ==
    IF symbol \in DOMAIN active_trades THEN Some(active_trades[symbol]) ELSE None

\* A caller (the status and trades commands of bot.py) takes the mapping.
get_active_trades ==
    /\ snapshot = None
    /\ snapshot' = Some([trades |-> GetActiveTrades, written |-> {}])
    /\ UNCHANGED <<active_trades, exec, world, text, parsed, gated>>

\* The caller deletes a key of the mapping it was given.
caller_deletes_key(symbol) ==
    /\ snapshot # None
    /\ symbol \in DOMAIN snapshot[1].trades
    /\ snapshot' = Some([snapshot[1] EXCEPT !.trades = DictDel(@, symbol)])
    /\ UNCHANGED <<active_trades, exec, world, text, parsed, gated>>

\* The caller assigns to a field of a record it reached through the mapping:
\* trades[symbol]['total_amount'] = 0.0.  Every reference to that dict object
\* sees the assignment.
caller_writes_record(symbol) ==
    /\ snapshot # None
    /\ symbol \in DOMAIN snapshot[1].trades
    /\ snapshot' = Some([snapshot[1] EXCEPT !.written = @ \cup {symbol}])
    /\ active_trades' =
           [s \in DOMAIN active_trades |->
               IF ObjectId(active_trades[s]) = snapshot[1].trades[symbol]
               THEN [active_trades[s] EXCEPT !.total_amount = Num(0)]
               ELSE active_trades[s]]
    /\ UNCHANGED <<exec, world, text, parsed, gated>>

\* The executions of one message and a caller that reads the ledger.
NextReaders ==
    \/ Next
    \/ get_active_trades
    \/ \E symbol \in Symbols : caller_deletes_key(symbol)
    \/ \E symbol \in Symbols : caller_writes_record(symbol)

InitReaders ==
    /\ messages \in [{1} -> RaceCaptures]
    /\ InitCommon

SpecReaders == InitReaders /\ [][NextReaders]_vars

\* SignalParser.parse_message(text)
parse_message ==
    /\ parsed = <<>>
    /\ parsed' = <<ParseMessage(text)>>
    /\ UNCHANGED <<active_trades, exec, world, snapshot, text, gated>>

\* bot.py on_message on the text: the pre-filter, then parse_message.
on_message_text ==
    /\ gated = <<>>
    /\ gated' = <<IF IsSignalMessage(text) THEN ParseMessage(text) ELSE None>>
    /\ UNCHANGED <<active_trades, exec, world, snapshot, text, parsed>>

NextParse ==
    \/ parse_message
    \/ on_message_text

\* A message content arrives; no execution and no exchange is involved.
InitParse ==
    /\ messages = EmptyDict
    /\ balance = Num(0)
    /\ min_size = DefaultMinOrderSize
    /\ ENABLE_STOP_LOSS = TRUE
    /\ ENABLE_TAKE_PROFIT = TRUE
    /\ active_trades = EmptyDict
    /\ exec = EmptyDict
    /\ snapshot = None
    /\ text \in Texts
    /\ parsed = <<>>
    /\ gated = <<>>

SpecParse == InitParse /\ [][NextParse]_vars

\* A step of the execute_signal call of message m.
ExecutorStep(m) ==
    \/ execute_signal(m)
    \/ get_balance(m)
    \/ get_min_order_size(m)
    \/ first_buy(m)
    \/ second_buy(m)
    \/ stop_loss(m)
    \/ stop_fallback(m)
    \/ take_profit(m)

\* ------------------------------------------------------------ what a run shows

\* The calls of locals e made at call site step, as indices into e.calls.
CallsAt(e, step) == {k \in DOMAIN e.calls : e.calls[k].step = step}

\* The call at site step returned ret.
Got(e, step, ret) == \E k \in CallsAt(e, step) : e.calls[k].ret = ret

\* The task of message m takes the step in which execute_signal returns.
Finishes(m) == exec[m].pc # "done" /\ exec'[m].pc = "done"

\* The execution passed the duplicate guard and the balance floor.
PassedFloor(e) == e.balance # None /\ Ge(e.balance, Num(MinBalance))

\* ------------------------------------------------------------ C1

\* C1: every finished execution that passed the duplicate guard and the
\* balance floor wrote a record for its symbol if and only if its first limit
\* buy returned an order.
C1_RecordIffFirstBuy ==
    \A m \in DOMAIN exec :
        (exec[m].pc = "done" /\ PassedFloor(exec[m]))
            => (exec[m].outcome = "committed" <=> Got(exec[m], "first_buy", "value"))

\* ------------------------------------------------------------ C2

\* C2: no step overwrites a record that is in active_trades: a symbol that
\* has a record before the step and after it has the same record.
C2_NeverOverwrites ==
    [][\A s \in DOMAIN active_trades :
           s \in DOMAIN active_trades' => active_trades'[s] = active_trades[s]]_vars

\* ------------------------------------------------------------ C3

\* C3: the duplicate guard looks at active_trades alone: while no record is
\* stored for its symbol, an execution at the guard passes it whatever other
\* executions for the same symbol are in flight, so two executions for one
\* symbol can both be past the guard with their first buy placed.
C3_GuardIgnoresInFlight ==
    [][\A m \in DOMAIN exec :
           (/\ exec[m].pc = "start"
            /\ exec'[m].pc # "start"
            /\ exec[m].signal.symbol \notin DOMAIN active_trades)
               => exec'[m].pc = "get_balance"]_vars

\* Two executions for one symbol hold a first buy order each and neither has
\* written active_trades.
C3_TwoLivePositions ==
    \E m1, m2 \in DOMAIN exec :
        /\ m1 # m2
        /\ exec[m1].pc \notin {"idle", "start", "done"}
        /\ exec[m2].pc \notin {"idle", "start", "done"}
        /\ exec[m1].signal.symbol = exec[m2].signal.symbol
        /\ exec[m1].signal.symbol \notin DOMAIN active_trades
        /\ Got(exec[m1], "first_buy", "value")
        /\ Got(exec[m2], "first_buy", "value")

\* ------------------------------------------------------------ C4

\* C4: the step of an execution that starts while active_trades holds a
\* record for its symbol returns False, has made no exchange call, and leaves
\* active_trades as it was.
C4_DuplicateReturnsFalse ==
    [][\A m \in DOMAIN exec :
           (/\ exec[m].pc = "start"
            /\ exec'[m].pc # "start"
            /\ exec[m].signal.symbol \in DOMAIN active_trades)
               => /\ exec'[m].pc = "done"
                  /\ exec'[m].result = FALSE
                  /\ exec'[m].calls = <<>>
                  /\ active_trades' = active_trades]_vars

\* An execution was turned away by the guard while the record was stored.
C4_DuplicateSeen ==
    \E m \in DOMAIN exec :
        /\ exec[m].pc = "done"
        /\ exec[m].outcome = "duplicate"
        /\ exec[m].calls = <<>>
        /\ exec[m].signal.symbol \in DOMAIN active_trades

\* ------------------------------------------------------------ C5

\* C5: an execution whose first limit buy returned no order has returned
\* False, has written no record, and the first buy is the last call it made.
C5_FirstBuyFailureIsFatal ==
    \A m \in DOMAIN exec :
        Got(exec[m], "first_buy", "none")
            => /\ exec[m].pc = "done"
               /\ exec[m].result = FALSE
               /\ exec[m].outcome # "committed"
               /\ exec[m].calls[Len(exec[m].calls)].step = "first_buy"
               /\ \A s \in DOMAIN active_trades :
                      active_trades[s].first_order # None
                          => active_trades[s].first_order[1].id[1] # m

\* A first buy failed.
C5_FirstBuyFailed ==
    \E m \in DOMAIN exec :
        /\ Got(exec[m], "first_buy", "none")
        /\ exec[m].pc = "done"
        /\ active_trades = EmptyDict

\* ------------------------------------------------------------ C6

\* The place of a call site in execute_signal.
StepRank(step) ==
    CASE step = "get_balance" -> 1
      [] step = "get_min_order_size" -> 2
      [] step = "first_buy" -> 3
      [] step = "second_buy" -> 4
      [] step = "stop_loss" -> 5
      [] step = "stop_fallback" -> 6
      [] step = "take_profit" -> 7

\* C6: the calls of one execution follow the order first buy, second buy,
\* stop order, stop fallback, take-profits; only the take-profit placement
\* repeats, its k-th placement is for the k-th target of the ascending
\* signal.targets, and a call is made only when every earlier one returned.
C6_PlacementsInOrder ==
    \A m \in DOMAIN exec :
        LET e == exec[m]
            c == e.calls
            tps == CallsAt(e, "take_profit")
        IN /\ \A i, j \in DOMAIN c :
                  i < j => \/ StepRank(c[i].step) < StepRank(c[j].step)
                           \/ c[i].step = "take_profit" /\ c[j].step = "take_profit"
           /\ \A i \in DOMAIN c : i < Len(c) => c[i].ret # "pending"
           /\ \A k \in tps :
                  c[k].price =
                      TargetPrice(e, e.signal.targets[Cardinality({j \in tps : j <= k})])
           /\ \A i, j \in tps : i < j => ~Lt(c[j].price, c[i].price)
           /\ e.pc # "idle" =>
                  \A a, b \in DOMAIN e.signal.targets :
                      a < b => e.signal.targets[a] <= e.signal.targets[b]

\* An execution made every kind of placement, with two take-profit prices.
C6_AllPlacements ==
    \E m \in DOMAIN exec :
        LET e == exec[m]
        IN /\ e.pc = "done"
           /\ \A step \in {"first_buy", "second_buy", "stop_loss", "stop_fallback"} :
                  CallsAt(e, step) # {}
           /\ \E i, j \in CallsAt(e, "take_profit") :
                  i < j /\ Lt(e.calls[i].price, e.calls[j].price)

\* ------------------------------------------------------------ C7

\* The stop order and its fallback limit sell both failed.
StopLossFailed(e) == Got(e, "stop_loss", "none") /\ Got(e, "stop_fallback", "none")

\* C7: an execution whose stop order and fallback both failed returns True
\* and stores its record, with stop_loss_order None.
C7_StopLossFailureNotFatal ==
    [][\A m \in DOMAIN exec :
           (Finishes(m) /\ StopLossFailed(exec'[m]))
               => LET e == exec'[m]
                  IN /\ ENABLE_STOP_LOSS
                     /\ e.result = TRUE
                     /\ e.signal.symbol \in DOMAIN active_trades'
                     /\ active_trades'[e.signal.symbol].first_order = e.first_order
                     /\ active_trades'[e.signal.symbol].stop_loss_order = None]_vars

\* A trade is stored whose stop order and fallback both failed.
C7_StoredWithoutStopLoss ==
    \E m \in DOMAIN exec :
        /\ exec[m].pc = "done"
        /\ exec[m].result = TRUE
        /\ StopLossFailed(exec[m])
        /\ exec[m].signal.symbol \in DOMAIN active_trades
        /\ active_trades[exec[m].signal.symbol].stop_loss_order = None

\* ------------------------------------------------------------ C8

\* The second buy's amount was computed and is below the minimum order size.
SecondBuySkipped(e) ==
    e.second_buy_amount # None /\ Lt(e.second_buy_amount, e.min_order_size)

\* The amount of the first buy order the execution placed.
FirstBuyAmount(e) == e.calls[CHOOSE k \in CallsAt(e, "first_buy") : TRUE].amount

\* C8: a second buy is placed only for second_buy_size / second_buy when
\* that is at least the minimum order size; below the minimum none is placed
\* and the amount is left as computed; an execution whose second buy was
\* skipped or failed still returns True and stores its record, with the first
\* tranche's amount and second_order None.
C8_SecondBuyOptional ==
    /\ [](\A m \in DOMAIN exec :
              LET e == exec[m]
              IN /\ \A k \in CallsAt(e, "second_buy") :
                        /\ e.calls[k].amount = Div(e.second_buy_size, e.signal.second_buy)
                        /\ Ge(e.calls[k].amount, e.min_order_size)
                 /\ SecondBuySkipped(e) =>
                        /\ CallsAt(e, "second_buy") = {}
                        /\ e.second_buy_amount = Div(e.second_buy_size, e.signal.second_buy)
                 /\ (e.pc = "done" /\ (SecondBuySkipped(e) \/ Got(e, "second_buy", "none")))
                        => e.outcome = "committed")
    /\ [][\A m \in DOMAIN exec :
              (Finishes(m)
                  /\ (SecondBuySkipped(exec'[m]) \/ Got(exec'[m], "second_buy", "none")))
                  => LET e == exec'[m]
                     IN /\ e.result = TRUE
                        /\ e.signal.symbol \in DOMAIN active_trades'
                        /\ active_trades'[e.signal.symbol].first_order = e.first_order
                        /\ active_trades'[e.signal.symbol].total_amount = FirstBuyAmount(e)
                        /\ active_trades'[e.signal.symbol].second_order = None]_vars

\* One stored trade skipped its second buy after a first buy that was not
\* raised to the minimum.
C8_SecondBuySkippedSeen ==
    \E m \in DOMAIN exec :
        LET e == exec[m]
        IN /\ e.pc = "done"
           /\ e.outcome = "committed"
           /\ SecondBuySkipped(e)
           /\ Lt(e.min_order_size, e.first_buy_amount)
           /\ e.signal.symbol \in DOMAIN active_trades
           /\ active_trades[e.signal.symbol].second_order = None

\* ------------------------------------------------------------ C9

\* The orders of the take-profit placements of task m that returned one, in
\* the order they were placed.
RECURSIVE TakeProfitOrdersFrom(_, _, _)
TakeProfitOrdersFrom(m, c, k) ==
    IF k > Len(c) THEN <<>>
    ELSE (IF c[k].step = "take_profit" /\ c[k].ret = "value"
          THEN <<Order(m, k, c[k])>> ELSE <<>>) \o TakeProfitOrdersFrom(m, c, k + 1)

\* C9: with take-profit enabled and N >= 1 targets, an execution that stores
\* its record has attempted exactly N take-profit sells, each for
\* total_amount / N, returns True, and take_profit_orders holds exactly the
\* orders that were returned; a failed placement does not end the loop.  With
\* the flag disabled or no targets, no take-profit sell is ever attempted.
C9_TakeProfitPerTarget ==
    /\ [](\A m \in DOMAIN exec :
              LET e == exec[m]
              IN /\ (e.pc # "idle" /\ ~(ENABLE_TAKE_PROFIT /\ e.signal.targets # <<>>))
                        => CallsAt(e, "take_profit") = {}
                 /\ (e.pc = "done" /\ CallsAt(e, "take_profit") # {})
                        => e.outcome = "committed")
    /\ [][\A m \in DOMAIN exec :
              (Finishes(m) /\ exec'[m].outcome = "committed"
                  /\ ENABLE_TAKE_PROFIT /\ exec'[m].signal.targets # <<>>)
                  => LET e == exec'[m]
                         n == Len(e.signal.targets)
                         rec == active_trades'[e.signal.symbol]
                     IN /\ Cardinality(CallsAt(e, "take_profit")) = n
                        /\ \A k \in CallsAt(e, "take_profit") :
                               /\ e.calls[k].side = "sell"
                               /\ e.calls[k].amount = Div(rec.total_amount, Num(n))
                        /\ e.result = TRUE
                        /\ rec.take_profit_orders = TakeProfitOrdersFrom(m, e.calls, 1)]_vars

\* A stored trade with two targets whose first take-profit placement failed
\* and whose second returned an order.
C9_FailedThenPlaced ==
    \E m \in DOMAIN exec :
        LET e == exec[m]
        IN /\ e.pc = "done"
           /\ e.outcome = "committed"
           /\ \E i, j \in CallsAt(e, "take_profit") :
                  i < j /\ e.calls[i].ret = "none" /\ e.calls[j].ret = "value"
           /\ e.signal.symbol \in DOMAIN active_trades
           /\ Len(active_trades[e.signal.symbol].take_profit_orders) = 1

\* ------------------------------------------------------------ C10

\* The amount of the second buy order the execution placed.
SecondBuyAmount(e) == e.calls[CHOOSE k \in CallsAt(e, "second_buy") : TRUE].amount

\* C10: the total_amount of the record an execution stores is the first
\* buy's amount plus the second buy's amount when the second buy was placed
\* and returned an order, and the first buy's amount alone otherwise.
C10_TotalAmount ==
    [][\A m \in DOMAIN exec :
           (Finishes(m) /\ exec'[m].outcome = "committed")
               => LET e == exec'[m]
                      rec == active_trades'[e.signal.symbol]
                  IN rec.total_amount =
                         IF Got(e, "second_buy", "value")
                         THEN Add(FirstBuyAmount(e), SecondBuyAmount(e))
                         ELSE FirstBuyAmount(e)]_vars

\* A stored trade whose second buy was placed and failed.
C10_SecondBuyFailedSeen ==
    \E m \in DOMAIN exec :
        LET e == exec[m]
        IN /\ e.pc = "done"
           /\ e.outcome = "committed"
           /\ Got(e, "second_buy", "none")
           /\ e.signal.symbol \in DOMAIN active_trades
           /\ active_trades[e.signal.symbol].total_amount = FirstBuyAmount(e)

\* ------------------------------------------------------------ C11

\* The quote cost of the buy order placed at call site step: amount * price.
BuyCost(e, step) ==
    LET c == e.calls[CHOOSE k \in CallsAt(e, step) : TRUE] IN Mul(c.amount, c.price)

\* The midpoint of the signal's first buying range.
Midpoint(signal) == Div(Add(signal.first_buy_range[1], signal.first_buy_range[2]), Num(2))

\* The first buy was placed for the minimum order size, not the computed amount.
RaisedToMinimum(e) ==
    /\ e.min_order_size # None
    /\ Lt(Div(Mul(e.position_size, FirstBuyShare), e.first_buy_price), e.min_order_size)

\* C11: in the record an execution stores, avg_entry_price * total_amount is
\* the summed quote cost (amount * price) of the buys that returned an order,
\* the first buy's cost being that of the raised amount when it was raised to
\* the minimum; when only the first buy returned an order, avg_entry_price is
\* the midpoint of the first buying range.
C11_AverageEntryPrice ==
    [][\A m \in DOMAIN exec :
           (Finishes(m) /\ exec'[m].outcome = "committed")
               => LET e == exec'[m]
                      rec == active_trades'[e.signal.symbol]
                  IN /\ Mul(rec.avg_entry_price, rec.total_amount) =
                            IF Got(e, "second_buy", "value")
                            THEN Add(BuyCost(e, "first_buy"), BuyCost(e, "second_buy"))
                            ELSE BuyCost(e, "first_buy")
                     /\ ~Got(e, "second_buy", "value")
                            => rec.avg_entry_price = Midpoint(e.signal)]_vars

\* A stored trade whose first buy was raised to the minimum and whose second
\* buy returned an order at another price.
C11_RaisedAndAveraged ==
    \E m \in DOMAIN exec :
        LET e == exec[m]
        IN /\ e.pc = "done"
           /\ e.outcome = "committed"
           /\ RaisedToMinimum(e)
           /\ Got(e, "second_buy", "value")
           /\ e.signal.symbol \in DOMAIN active_trades
           /\ active_trades[e.signal.symbol].avg_entry_price # Midpoint(e.signal)

\* ------------------------------------------------------------ C12

\* The quote cost of the buy orders the exchange returned to the execution.
BoughtCost(e) ==
    Add(IF Got(e, "first_buy", "value") THEN BuyCost(e, "first_buy") ELSE Num(0),
        IF Got(e, "second_buy", "value") THEN BuyCost(e, "second_buy") ELSE Num(0))

\* C12 as claimed: the quote cost of the buy orders of an execution never
\* exceeds MAX_POSITION_SIZE.
C12_CostWithinCap ==
    \A m \in DOMAIN exec : ~Lt(Num(MAX_POSITION_SIZE), BoughtCost(exec[m]))

\* C12: MAX_POSITION_SIZE caps the position size, which is at most the
\* percentage of the balance; the quote cost of the buys stays within the
\* position size when the first buy was placed for the computed amount; a
\* first buy raised to the minimum order size costs minimum * price, which
\* the cap does not bound, and the second buy then adds at most its 40% share.
C12_CapOnPositionSize ==
    \A m \in DOMAIN exec :
        LET e == exec[m]
        IN e.position_size # None
               => /\ ~Lt(Num(MAX_POSITION_SIZE), e.position_size)
                  /\ ~Lt(Mul(e.balance, R(POSITION_SIZE_PERCENTAGE, 100)), e.position_size)
                  /\ e.min_order_size # None
                         => IF RaisedToMinimum(e)
                            THEN ~Lt(Add(Mul(e.min_order_size, Midpoint(e.signal)),
                                         Mul(e.position_size, SecondBuyShare)),
                                     BoughtCost(e))
                            ELSE ~Lt(e.position_size, BoughtCost(e))

\* Both buys of a position the cap cut down returned an order, the first
\* for the computed amount: the cost is MAX_POSITION_SIZE.
C12_CappedPositionBought ==
    \E m \in DOMAIN exec :
        LET e == exec[m]
        IN /\ e.position_size # None
           /\ Lt(e.position_size, Mul(e.balance, R(POSITION_SIZE_PERCENTAGE, 100)))
           /\ e.min_order_size # None
           /\ ~RaisedToMinimum(e)
           /\ Got(e, "first_buy", "value")
           /\ Got(e, "second_buy", "value")
           /\ BoughtCost(e) = Num(MAX_POSITION_SIZE)

\* ------------------------------------------------------------ C13

\* C13: an execution whose balance query returned less than 10 (0 when the
\* query failed) has returned False having called nothing but get_balance,
\* and the step in which it learns the balance leaves active_trades as it was.
C13_LowBalanceReturnsFalse ==
    /\ [](\A m \in DOMAIN exec :
              LET e == exec[m]
              IN (e.balance # None /\ Lt(e.balance, Num(10)))
                     => /\ e.pc = "done"
                        /\ e.result = FALSE
                        /\ e.outcome = "insufficient_balance"
                        /\ \A k \in DOMAIN e.calls : e.calls[k].step = "get_balance")
    /\ [][\A m \in DOMAIN exec :
              (exec[m].pc = "get_balance" /\ exec'[m].pc # "get_balance"
                   /\ Lt(exec'[m].balance, Num(10)))
                  => active_trades' = active_trades]_vars

\* The balance query failed on an account that holds enough: the execution
\* saw 0 and returned.
C13_FailedQuerySeen ==
    \E m \in DOMAIN exec :
        /\ exec[m].pc = "done"
        /\ exec[m].balance = Num(0)
        /\ Ge(balance, Num(10))
        /\ exec[m].result = FALSE

\* ------------------------------------------------------------ C14

\* C14: once an execution with a balance of at least 10 has sized its
\* position, position_size is the smaller of balance * POSITION_SIZE_PERCENTAGE
\* / 100 and MAX_POSITION_SIZE; until the minimum order size is applied
\* first_buy_size is 60% of it, and second_buy_size is 40% of it for good;
\* the two shares sum to position_size.
C14_PositionSizing ==
    \A m \in DOMAIN exec :
        LET e == exec[m]
            share == IF e.balance = None THEN None
                     ELSE Mul(e.balance, R(POSITION_SIZE_PERCENTAGE, 100))
            sixty == Mul(e.position_size, R(60, 100))
            forty == Mul(e.position_size, R(40, 100))
        IN PassedFloor(e)
               => /\ e.position_size = IF Lt(share, Num(MAX_POSITION_SIZE)) THEN share
                                       ELSE Num(MAX_POSITION_SIZE)
                  /\ e.second_buy_size = forty
                  /\ e.min_order_size = None => e.first_buy_size = sixty
                  /\ Add(sixty, forty) = e.position_size

\* A position below the cap has been sized and the minimum order size is
\* not applied yet.
C14_SizedBelowCap ==
    \E m \in DOMAIN exec :
        /\ exec[m].pc = "get_min_order_size"
        /\ Lt(exec[m].position_size, Num(MAX_POSITION_SIZE))
        /\ Lt(Num(0), exec[m].first_buy_size)

\* ------------------------------------------------------------ C15

\* C15: the first buy is placed for the minimum order size when position_size
\* * 60% / price is below it, and first_buy_size, the cost that enters
\* total_cost, is then minimum * price; otherwise the buy is placed for the
\* computed amount and first_buy_size stays 60% of position_size.
C15_RaiseToMinimum ==
    \A m \in DOMAIN exec :
        LET e == exec[m]
            sixty == Mul(e.position_size, R(60, 100))
            computed == Div(sixty, e.first_buy_price)
        IN e.min_order_size # None
               => /\ IF Lt(computed, e.min_order_size)
                     THEN /\ FirstBuyAmount(e) = e.min_order_size
                          /\ e.first_buy_size = Mul(e.min_order_size, e.first_buy_price)
                     ELSE /\ FirstBuyAmount(e) = computed
                          /\ e.first_buy_size = sixty
                  /\ e.total_cost # None
                         => e.total_cost = IF Got(e, "second_buy", "value")
                                           THEN Add(e.first_buy_size, e.second_buy_size)
                                           ELSE e.first_buy_size

\* A stored trade whose only buy was raised to the minimum order size.
C15_RaisedFirstBuyStored ==
    \E m \in DOMAIN exec :
        LET e == exec[m]
        IN /\ e.pc = "done"
           /\ e.outcome = "committed"
           /\ RaisedToMinimum(e)
           /\ FirstBuyAmount(e) = e.min_order_size
           /\ CallsAt(e, "second_buy") = {}
           /\ Lt(Mul(e.position_size, FirstBuyShare), e.total_cost)

\* ------------------------------------------------------------ C16

\* Where an execution can be: before the call, at one of its awaits, returned.
CallSites ==
    {"idle", "start", "get_balance", "get_min_order_size", "first_buy", "second_buy",
     "stop_loss", "stop_fallback", "take_profit", "done"}

\* The calls an execution makes at most: the balance, the minimum order
\* size, two buys, the stop order and its fallback, a sell per target.
MaxCalls(e) == 6 + Len(e.signal.targets)

\* C16: an execution is never left by an exception: it is before the call,
\* at one of its awaits or returned, and a returned execution has the result
\* True or False; the call always ends, because a call that has not returned
\* can take a step whatever the exchange answers, every step returns or
\* makes one more exchange call, and the calls are bounded.
C16_AlwaysReturns ==
    /\ [](\A m \in DOMAIN exec :
              /\ exec[m].pc \in CallSites
              /\ exec[m].pc = "done" => exec[m].result \in BOOLEAN
              /\ exec[m].pc \notin {"idle", "done"}
                     => /\ ENABLED ExecutorStep(m)
                        /\ Len(exec[m].calls) <= MaxCalls(exec[m]))
    /\ [][\A m \in DOMAIN exec :
              exec'[m].pc # exec[m].pc
                  => \/ exec'[m].pc \in {"start", "done"}
                     \/ Len(exec'[m].calls) = Len(exec[m].calls) + 1]_vars

\* A division by a zero price raised before any order was placed, and the
\* execution returned False.
C16_FaultCaught ==
    \E m \in DOMAIN exec :
        /\ exec[m].pc = "done"
        /\ exec[m].outcome = "error"
        /\ exec[m].result = FALSE
        /\ CallsAt(exec[m], "first_buy") = {}

\* ------------------------------------------------------------ C17

\* The caller changes the mapping it holds or a record reached through it.
CallerModifies == snapshot # None /\ snapshot' # None /\ snapshot' # snapshot

\* C17: no modification a caller makes to the mapping get_active_trades
\* returned, or to a record reached through it, changes active_trades, the
\* state get_active_trades and check_trade_status answer from.
C17_SnapshotNotAliased ==
    [][CallerModifies => active_trades' = active_trades]_vars

\* ------------------------------------------------------------ C18

\* The step deletes a record of active_trades.
Removes == DOMAIN active_trades' # DOMAIN active_trades
               /\ DOMAIN active_trades' \subseteq DOMAIN active_trades

\* An execution for symbol stored a record and the record is gone.
Freed(symbol) ==
    /\ symbol \notin DOMAIN active_trades
    /\ \E m \in DOMAIN exec :
           /\ exec[m].pc = "done"
           /\ exec[m].outcome = "committed"
           /\ exec[m].signal.symbol = symbol

\* C18: remove_trade(symbol) leaves no record for symbol, changes nothing
\* when there was none, and leaves every other symbol's record as it was; the
\* step that removes a record changes no execution; an execution that
\* reaches the guard after its symbol's record was removed passes it, and the
\* record an execution stores afterwards is its own.
C18_RemoveFreesSlot ==
    /\ [](\A symbol \in Symbols :
              LET after == RemoveTrade(active_trades, symbol)
              IN /\ symbol \notin DOMAIN after
                 /\ symbol \notin DOMAIN active_trades => after = active_trades
                 /\ \A other \in DOMAIN active_trades \ {symbol} :
                        other \in DOMAIN after /\ after[other] = active_trades[other])
    /\ [][Removes
              => /\ Cardinality(DOMAIN active_trades \ DOMAIN active_trades') = 1
                 /\ \A other \in DOMAIN active_trades' :
                        active_trades'[other] = active_trades[other]
                 /\ \A m \in DOMAIN exec :
                        exec'[m].pc = exec[m].pc /\ exec'[m].calls = exec[m].calls]_vars
    /\ [][\A m \in DOMAIN exec :
              (exec[m].pc = "start" /\ exec'[m].pc # "start"
                   /\ Freed(exec[m].signal.symbol))
                  => /\ exec'[m].pc = "get_balance"
                     /\ Len(exec'[m].calls) = 1]_vars
    /\ [][\A m \in DOMAIN exec :
              (Finishes(m) /\ exec'[m].outcome = "committed")
                  => /\ exec'[m].result = TRUE
                     /\ active_trades'[exec'[m].signal.symbol].first_order =
                            exec'[m].first_order]_vars

\* The record one execution stored was removed, and another execution for
\* the same symbol is about to run the guard.
C18_GuardAfterRemoval ==
    \E m1, m2 \in DOMAIN exec :
        LET symbol == exec[m1].signal.symbol
        IN /\ m1 # m2
           /\ exec[m1].pc = "done"
           /\ exec[m1].outcome = "committed"
           /\ exec[m2].pc = "start"
           /\ exec[m2].signal.symbol = symbol
           /\ Freed(symbol)

\* ------------------------------------------------------------ C19

\* The expression of kind matched and float() accepted what it captured.
Extracted(content, kind) ==
    LET at == Search(content, kind)
    IN at # 0 /\ \A n \in DOMAIN content[at].numbers : content[at].numbers[n].wellformed

\* C19: parse_message returns a signal exactly when the symbol, the first
\* buying range, the second buying price, the CMP, at least one target
\* percentage and the stop loss were all extracted, so the targets of a
\* returned signal are not empty.
C19_AllSixOrNothing ==
    parsed # <<>>
        => /\ parsed[1] # None
                  <=> /\ \A kind \in {"symbol", "first", "second", "cmp", "sl"} :
                             Extracted(text, kind)
                      /\ Search(text, "percent") # 0
           /\ parsed[1] # None => parsed[1][1].targets # <<>>

\* ------------------------------------------------------------ C20

\* How often value occurs in list.
Count(list, value) == Cardinality({i \in DOMAIN list : list[i] = value})

\* The digits each (\d+)% of the content captured, in the order of the text.
CapturedPercents(content) ==
    LET at == {i \in DOMAIN content : content[i].kind = "percent"}
    IN [v \in TargetPercents |-> Cardinality({i \in at : content[i].percent = v})]

\* C20: the targets of a returned signal are ascending and hold every
\* captured percentage as often as the text has it, and nothing else.
C20_TargetsSortedPermutation ==
    (parsed # <<>> /\ parsed[1] # None)
        => LET targets == parsed[1][1].targets
           IN /\ \A i, j \in DOMAIN targets : i < j => targets[i] <= targets[j]
              /\ \A i \in DOMAIN targets : targets[i] \in TargetPercents
              /\ \A v \in TargetPercents :
                     Count(targets, v) = CapturedPercents(text)[v]

\* A returned signal whose percentages stood in descending order in the text.
C20_ReorderedSeen ==
    /\ parsed # <<>>
    /\ parsed[1] # None
    /\ Findall(text) = <<10, 5>>
    /\ parsed[1][1].targets = <<5, 10>>

\* ------------------------------------------------------------ C21

\* The one call the execution made at call site step.
TheCall(e, step) == e.calls[CHOOSE k \in CallsAt(e, step) : TRUE]

\* C21: an execution makes at most one first buy, one second buy, one stop
\* order and one fallback, and at most as many take-profit sells as the
\* signal has targets; the fallback is made only when the stop order was
\* placed and failed, and is a limit sell for the stop order's amount at the
\* stop order's price.
C21_NoRetries ==
    \A m \in DOMAIN exec :
        LET e == exec[m]
        IN /\ \A step \in {"first_buy", "second_buy", "stop_loss", "stop_fallback"} :
                  Cardinality(CallsAt(e, step)) <= 1
           /\ CallsAt(e, "take_profit") # {}
                  => Cardinality(CallsAt(e, "take_profit")) <= Len(e.signal.targets)
           /\ CallsAt(e, "stop_fallback") # {}
                  => /\ Got(e, "stop_loss", "none")
                     /\ ~Got(e, "stop_loss", "value")
                     /\ TheCall(e, "stop_fallback").op = "place_limit_order"
                     /\ TheCall(e, "stop_fallback").side = "sell"
                     /\ TheCall(e, "stop_fallback").amount = TheCall(e, "stop_loss").amount
                     /\ TheCall(e, "stop_fallback").price = TheCall(e, "stop_loss").price
                     /\ TheCall(e, "stop_fallback").price = e.signal.stop_loss
           /\ Got(e, "stop_loss", "value") => CallsAt(e, "stop_fallback") = {}

\* A stored trade whose stop order failed, whose fallback returned an order,
\* and whose two take-profit sells both failed without being placed again.
C21_FallbackPlacedOnce ==
    \E m \in DOMAIN exec :
        LET e == exec[m]
        IN /\ e.pc = "done"
           /\ e.outcome = "committed"
           /\ Got(e, "stop_loss", "none")
           /\ Got(e, "stop_fallback", "value")
           /\ Cardinality(CallsAt(e, "take_profit")) = 2
           /\ ~Got(e, "take_profit", "value")

\* ------------------------------------------------------------ C22

\* The execution whose first order a record holds: the one that built it.
ProducedBy(record) == ObjectId(record)[1]

\* The symbols under which a reader sees a record the execution m produced.
VisibleOf(m) ==
    {symbol \in DOMAIN GetActiveTrades : GetActiveTrades[symbol][1] = m}
        \cup {symbol \in Symbols :
                  /\ CheckTradeStatus(symbol) # None
                  /\ ProducedBy(CheckTradeStatus(symbol)[1]) = m}

\* C22: while an execution has not returned, at the guard and at every
\* await, get_active_trades and check_trade_status show no record it
\* produced; a record of an execution appears only in the step in which the
\* execution returns True, under its symbol alone; and no step changes a
\* record that stays in active_trades.
C22_SingleWrite ==
    /\ [](\A m \in DOMAIN exec : exec[m].pc # "done" => VisibleOf(m) = {})
    /\ [][\A m \in DOMAIN exec :
              VisibleOf(m)' # VisibleOf(m)
                  => \/ /\ Finishes(m)
                        /\ exec'[m].outcome = "committed"
                        /\ VisibleOf(m) = {}
                        /\ VisibleOf(m)' = {exec'[m].signal.symbol}
                     \/ /\ exec[m].pc = "done"
                        /\ VisibleOf(m)' = {}]_vars
    /\ [][\A symbol \in DOMAIN active_trades :
              (/\ symbol \in DOMAIN active_trades'
               /\ ObjectId(active_trades'[symbol]) = ObjectId(active_trades[symbol]))
                  => active_trades'[symbol] = active_trades[symbol]]_vars

\* One execution has stored its record; another, for another symbol, holds
\* its buy and stop orders and awaits a take-profit sell: a reader sees the
\* first record alone.
C22_InFlightInvisible ==
    \E m1, m2 \in DOMAIN exec :
        /\ exec[m1].pc = "done"
        /\ exec[m1].outcome = "committed"
        /\ exec[m2].pc = "take_profit"
        /\ Got(exec[m2], "first_buy", "value")
        /\ Got(exec[m2], "stop_loss", "value")
        /\ DOMAIN GetActiveTrades = {exec[m1].signal.symbol}
        /\ exec[m2].signal.symbol # exec[m1].signal.symbol

\* ------------------------------------------------------------ C23

\* The task of message m takes the step.
Steps(m) ==
    exec'[m].pc # exec[m].pc \/ Len(exec'[m].calls) # Len(exec[m].calls)

\* C23: the keys of active_trades are symbols as the signals carry them, and
\* a record is stored under its signal's symbol with the exchange's pair as
\* a field; a step of an execution leaves the entry of every other symbol as
\* it was, present or absent; and an execution at the guard whose own symbol
\* has no record passes it whatever records other symbols have.
C23_PerSymbolFrame ==
    /\ [](/\ DOMAIN active_trades \subseteq Symbols
          /\ \A symbol \in DOMAIN active_trades :
                 /\ active_trades[symbol].base_symbol = symbol
                 /\ active_trades[symbol].signal.symbol = symbol
                 /\ active_trades[symbol].symbol = get_symbol(symbol, DEFAULT_QUOTE_ASSET))
    /\ [][\A m \in DOMAIN exec :
              Steps(m)
                  => \A other \in Symbols \ {exec'[m].signal.symbol} :
                         /\ other \in DOMAIN active_trades' <=> other \in DOMAIN active_trades
                         /\ other \in DOMAIN active_trades
                                => active_trades'[other] = active_trades[other]]_vars
    /\ [][\A m \in DOMAIN exec :
              (/\ exec[m].pc = "start"
               /\ Steps(m)
               /\ exec[m].signal.symbol \notin DOMAIN active_trades
               /\ DOMAIN active_trades # {})
                  => /\ exec'[m].pc = "get_balance"
                     /\ active_trades' = active_trades]_vars

\* Two executions for two symbols have each stored their record: the later
\* one passed the guard or wrote beside the other's record.
C23_TwoSymbolsStored ==
    \E m1, m2 \in DOMAIN exec :
        LET a == exec[m1].signal.symbol
            b == exec[m2].signal.symbol
        IN /\ exec[m1].pc = "done" /\ exec[m1].outcome = "committed"
           /\ exec[m2].pc = "done" /\ exec[m2].outcome = "committed"
           /\ a # b
           /\ DOMAIN active_trades = {a, b}
           /\ ProducedBy(active_trades[a]) = m1
           /\ ProducedBy(active_trades[b]) = m2

\* ------------------------------------------------------------ C24

\* The step stores a record the execution m produced.
Writes(m) ==
    \E symbol \in DOMAIN active_trades' :
        /\ ProducedBy(active_trades'[symbol]) = m
        /\ symbol \in DOMAIN active_trades
               => active_trades'[symbol] # active_trades[symbol]

\* C24: the step in which an execution returns stores its record under
\* signal.symbol when it returns True and leaves active_trades as it was
\* when it returns False; no other step of the execution touches
\* active_trades; a returned execution has the result True exactly when it
\* took the return at the end of the body, and the executions that returned
\* False saw a duplicate, too small a balance, a failed first buy or a fault.
C24_ResultMatchesWrite ==
    /\ [](\A m \in DOMAIN exec :
              exec[m].pc = "done"
                  => /\ exec[m].result = TRUE <=> exec[m].outcome = "committed"
                     /\ exec[m].result = FALSE
                            <=> exec[m].outcome \in {"duplicate", "insufficient_balance",
                                                     "first_buy_failed", "error"})
    /\ [][\A m \in DOMAIN exec :
              Steps(m)
                  => IF Finishes(m) /\ exec'[m].result
                     THEN /\ Writes(m)
                          /\ ProducedBy(active_trades'[exec'[m].signal.symbol]) = m
                     ELSE active_trades' = active_trades]_vars

\* The first buy was placed, a fault followed, and the execution returned
\* False with nothing stored.
C24_FalseWithOrderPlaced ==
    \E m \in DOMAIN exec :
        /\ exec[m].pc = "done"
        /\ exec[m].result = FALSE
        /\ exec[m].outcome = "error"
        /\ Got(exec[m], "first_buy", "value")
        /\ active_trades = EmptyDict

\* ------------------------------------------------------------ C25

\* The summed amount of the calls k..Len(c) of the log c that were made at
\* one of the call sites steps and returned an order.
RECURSIVE SoldFrom(_, _, _)
SoldFrom(c, steps, k) ==
    IF k > Len(c) THEN Num(0)
    ELSE Add(IF c[k].step \in steps /\ c[k].ret = "value" THEN c[k].amount ELSE Num(0),
             SoldFrom(c, steps, k + 1))

Sold(e, steps) == SoldFrom(e.calls, steps, 1)

\* C25 as claimed: the sell orders an execution holds, the stop order or its
\* fallback and the take-profit sells together, never sum to more than
\* total_amount.
C25_SellsWithinPosition ==
    \A m \in DOMAIN exec :
        exec[m].total_amount # None
            => ~Lt(exec[m].total_amount,
                   Sold(exec[m], {"stop_loss", "stop_fallback", "take_profit"}))

\* C25: the stop order, or its fallback, is for total_amount, and the
\* take-profit sells, total_amount / N each, sum to total_amount at most:
\* each of the two groups stays within total_amount, and the two together
\* within twice total_amount.
C25_EachSideWithinPosition ==
    \A m \in DOMAIN exec :
        LET e == exec[m]
        IN e.total_amount # None
               => /\ ~Lt(e.total_amount, Sold(e, {"stop_loss", "stop_fallback"}))
                  /\ ~Lt(e.total_amount, Sold(e, {"take_profit"}))
                  /\ ~Lt(Mul(Num(2), e.total_amount),
                         Sold(e, {"stop_loss", "stop_fallback", "take_profit"}))

\* A stored trade whose stop order and two take-profit sells all returned an
\* order: the stop sells total_amount and so do the take-profits together.
C25_StopAndTargetsSold ==
    \E m \in DOMAIN exec :
        LET e == exec[m]
        IN /\ e.pc = "done"
           /\ e.outcome = "committed"
           /\ Len(e.signal.targets) = 2
           /\ Sold(e, {"stop_loss", "stop_fallback"}) = e.total_amount
           /\ Sold(e, {"take_profit"}) = e.total_amount

\* ------------------------------------------------------------ C26

\* C26: a text from which parse_message returns a signal passes
\* is_signal_message, and on_message, which parses only what passes, gets
\* the same signal.
C26_PrefilterKeepsSignals ==
    (parsed # <<>> /\ parsed[1] # None)
        => /\ IsSignalMessage(text)
           /\ gated # <<>> => gated[1] = parsed[1]

\* The converse fails: a text with a symbol, "buying" and "cmp" passes the
\* pre-filter, parse_message returns nothing for it, and on_message gets
\* nothing.
C26_PassesAndYieldsNothing ==
    /\ IsSignalMessage(text)
    /\ parsed # <<>>
    /\ parsed[1] = None
    /\ gated # <<>>
    /\ gated[1] = None
    /\ Search(text, "symbol") # 0

====
